---- MODULE Spec2Model ----
(***************************************************************************)
(* Model of supabase/functions/pessoa-dao/index.ts: the in-memory          *)
(* CacheManager (Map with TTL), the PessoaDAO in front of the pessoa       *)
(* table, and the HTTP handler that routes requests to the DAO.            *)
(* Every synchronous segment of the TypeScript code (the code              *)
(* between two awaits) is one action: the edge runtime runs a segment to   *)
(* completion before another request's continuation is scheduled.          *)
(***************************************************************************)
EXTENDS Integers, Sequences, FiniteSets, TLC

VARIABLES
    now,        \* Date.now(), milliseconds
    ticks,      \* how often the clock has advanced
    cache,      \* CacheManager.cache: Map<string, CacheEntry>
    cacheSeq,   \* history: per cache entry, the table version its data was read at
    setLog,     \* history: per key, the time and ttl of the set that wrote the live entry
    db,         \* the rows of table public.pessoa
    nextId,     \* the next identifier gen_random_uuid() hands out
    commitSeq,  \* history: number of write statements the table has executed
    retSeq,     \* history: the newest table version whose write has returned success
    req,        \* the in-flight DAO calls, one per request slot
    nCalls,     \* number of DAO calls made so far
    hist,       \* history: the last two returns and what the calls so far showed
    ev,         \* what the last step returned to its caller
    http,       \* per request slot, the HTTP request the handler is serving
    voice,      \* voice-chat: the request the handler is serving and what it did
    recorder,   \* useAudioRecorder: its state, refs and browser objects
    page        \* AudioRecorder and Index: their state, refs and pending effects

vars == <<now, ticks, cache, cacheSeq, setLog, db, nextId, commitSeq, retSeq, req, nCalls, hist, ev, http,
          voice, recorder, page>>

\* the variables of pessoa-dao
dao == <<now, ticks, cache, cacheSeq, setLog, db, nextId, commitSeq, retSeq, req, nCalls, hist, ev, http>>

(* ------------------------------ bounds -------------------------------- *)

\* number of clock advances explored
MaxTicks == 2

\* DAO calls the router makes
MaxCalls == 4

\* recordings started in one session of the page
MaxRecordings == 2

\* the maxDuration the recorder is given, in seconds
maxDuration == 2

(* ------------------------- program constants -------------------------- *)

\* new CacheManager(60)
defaultTTLSeconds == 60

\* this.defaultTTL = defaultTTLSeconds * 1000
defaultTTL == defaultTTLSeconds * 1000

(* ------------------------------ values -------------------------------- *)

\* T | null : <<>> is null/undefined, <<v>> is the value v
Null == <<>>

Some(v) == <<v>>

\* an optional argument that was left out (ttlSeconds?: number)
Omitted == <<>>

\* Date.now() advances by one of these amounts (milliseconds) between two
\* observations: one millisecond, or one millisecond less than the TTL
TickSteps == {1, defaultTTL - 1}

\* new Map()
EmptyCache == <<>>

(* --------------------------- CacheManager ----------------------------- *)

\* generateKey that leaves the input out of the digest
generateKey_constant(input) == <<"sha256", "">>

\* generateKey: the hex SHA-256 digest of the input string.  The digest is
\* a function of the input alone and is collision free on the inputs used
\* here; it is represented by the tagged input.
generateKey(input) == <<"sha256", input>>

\* k.substring(0, 16): the first 16 hex digits of the digest
keyPrefix(key) == <<"prefix16">> \o Tail(key)

\* Map.prototype.delete
mapDelete(c, key) == [k \in (DOMAIN c) \ {key} |-> c[k]]

\* Map.prototype.set
mapSet(c, key, entry) == [k \in (DOMAIN c) \cup {key} |-> IF k = key THEN entry ELSE c[k]]

\* isExpired that compares with the wrong timestamp: expired once older than
\* its creation
isExpired_by_age(t, entry) == t > entry.createdAt

\* the expiry test of get and cleanup: Date.now() > entry.expiresAt
isExpired(t, entry) == t > entry.expiresAt

\* get that never finds its entry
get_never_hits(c, key, t) == [value |-> Null, cache |-> c]

\* get with sliding expiry: a hit starts the entry's lifetime again
get_sliding(c, key, t) ==
    IF key \notin DOMAIN c THEN [value |-> Null, cache |-> c]
    ELSE IF t > c[key].expiresAt THEN [value |-> Null, cache |-> mapDelete(c, key)]
    ELSE [value |-> Some(c[key].data),
          cache |-> mapSet(c, key, [c[key] EXCEPT !.expiresAt = t + defaultTTL])]

\* get that reports an expired entry absent and leaves it in the map
get_keeps_expired(c, key, t) ==
    IF key \notin DOMAIN c \/ t > c[key].expiresAt THEN [value |-> Null, cache |-> c]
    ELSE [value |-> Some(c[key].data), cache |-> c]

\* get<T>(key): T | null, with the cache it leaves behind
get(c, key, t) ==
    IF key \notin DOMAIN c
    THEN [value |-> Null, cache |-> c]
    ELSE IF isExpired(t, c[key])
         THEN [value |-> Null, cache |-> mapDelete(c, key)]
         ELSE [value |-> Some(c[key].data), cache |-> c]

\* the ttl left in seconds: the conversion to milliseconds forgotten
ttlOf_unscaled(ttlSeconds) ==
    IF ttlSeconds = Omitted THEN defaultTTL \div 1000 ELSE ttlSeconds[1]

\* the ttl with || in place of ??: a ttl of 0 becomes the default
ttlOf_falsy_zero(ttlSeconds) ==
    (IF ttlSeconds = Omitted \/ ttlSeconds = Some(0) THEN defaultTTL \div 1000 ELSE ttlSeconds[1]) * 1000

\* the ttl of set in milliseconds: (ttlSeconds ?? this.defaultTTL / 1000) * 1000
ttlOf(ttlSeconds) ==
    (IF ttlSeconds = Omitted THEN defaultTTL \div 1000 ELSE ttlSeconds[1]) * 1000

\* set<T>(key, data, ttlSeconds?)
set(c, key, data, ttlSeconds, t) ==
    mapSet(c, key, [data |-> data, expiresAt |-> t + ttlOf(ttlSeconds), createdAt |-> t])

\* evict that looks for the entry after deleting it
evict_has_after_delete(c, key) ==
    [existed |-> key \in DOMAIN mapDelete(c, key), cache |-> mapDelete(c, key)]

\* evict(key): boolean
evict(c, key) == [existed |-> key \in DOMAIN c, cache |-> mapDelete(c, key)]

\* invalidateAll that clears nothing
invalidateAll_noop(c) == c

\* invalidateAll that stops before the last entry
invalidateAll_partial(c) ==
    IF DOMAIN c = {} THEN c ELSE [k \in {CHOOSE x \in DOMAIN c : TRUE} |-> c[k]]

\* invalidateAll(): this.cache.clear()
invalidateAll(c) == EmptyCache

\* cleanup that also removes the entries that expire just now
cleanup_at_expiry(c, t) ==
    LET gone == {k \in DOMAIN c : t >= c[k].expiresAt}
    IN  [removed |-> Cardinality(gone), cache |-> [k \in (DOMAIN c) \ gone |-> c[k]]]

\* cleanup that removes the entries older than their creation
cleanup_by_age(c, t) ==
    LET gone == {k \in DOMAIN c : t > c[k].createdAt}
    IN  [removed |-> Cardinality(gone), cache |-> [k \in (DOMAIN c) \ gone |-> c[k]]]

\* cleanup(): number
cleanup(c, t) ==
    LET gone == {k \in DOMAIN c : isExpired(t, c[k])}
    IN  [removed |-> Cardinality(gone), cache |-> [k \in (DOMAIN c) \ gone |-> c[k]]]

\* getStats()
getStats(c) == [size |-> Cardinality(DOMAIN c), keys |-> [k \in DOMAIN c |-> keyPrefix(k)]]

(* ------------------------ table public.pessoa ------------------------- *)

Emails == {"ana@x.com", "bob@x.com"}

Phones == {"111"}

\* telefone TEXT (nullable)
NoPhone == "null"

Names == {"Ana"}

\* every row takes one create call
Ids == 1..MaxCalls

\* interface Pessoa (data_nascimento, endereco and the two timestamps are
\* carried like telefone and are left out)
Pessoa == [id : Ids, nome : Names, email : Emails, telefone : Phones \cup {NoPhone}]

\* error codes of the storage client
NoError == ""

PGRST116 == "PGRST116"

UniqueViolation == "23505"

StorageDown == "08006"

\* nome TEXT NOT NULL, email TEXT NOT NULL
NotNullViolation == "23502"

\* the rpc function is not there
NoFunction == "PGRST202"

\* error.message of the storage client for each code
messageOf(code) ==
    CASE code = PGRST116 -> "JSON object requested, multiple (or no) rows returned"
      [] code = UniqueViolation -> "duplicate key value violates unique constraint"
      [] code = NotNullViolation -> "null value violates not-null constraint"
      [] code = NoFunction -> "Could not find the function"
      [] OTHER -> "connection failure"

\* a record with some fields replaced: UPDATE ... SET
applyPatch(row, patch) == [f \in DOMAIN row |-> IF f \in DOMAIN patch THEN patch[f] ELSE row[f]]

\* .from('pessoa').insert(data).select().single()
insertSingle(table, data, id) ==
    IF "nome" \notin DOMAIN data \/ "email" \notin DOMAIN data
    THEN [error |-> NotNullViolation, data |-> Null, table |-> table]
    ELSE IF \E r \in table : r.email = data.email
    THEN [error |-> UniqueViolation, data |-> Null, table |-> table]
    ELSE LET row == [id |-> id, nome |-> data.nome, email |-> data.email,
                     telefone |-> IF "telefone" \in DOMAIN data THEN data.telefone ELSE NoPhone]
         IN  [error |-> NoError, data |-> Some(row), table |-> table \cup {row}]

\* .from('pessoa').update(data).eq('id', id).select().single()
updateSingle(table, id, patch) ==
    LET hit == {r \in table : r.id = id}
    IN  IF hit = {}
        THEN [error |-> PGRST116, data |-> Null, table |-> table]
        ELSE LET old == CHOOSE r \in hit : TRUE
                 new == applyPatch(old, patch)
             IN  IF \E r \in table \ hit : r.email = new.email
                 THEN [error |-> UniqueViolation, data |-> Null, table |-> table]
                 ELSE [error |-> NoError, data |-> Some(new), table |-> (table \ hit) \cup {new}]

\* .from('pessoa').delete().eq('id', id)
deleteEq(table, id) ==
    [error |-> NoError, data |-> Null, table |-> {r \in table : r.id # id}]

\* .from('pessoa').select('*').eq(col, val).single()
selectSingle(table, col, val) ==
    LET hit == {r \in table : r[col] = val}
    IN  IF Cardinality(hit) = 1
        THEN [error |-> NoError, data |-> Some(CHOOSE r \in hit : TRUE), table |-> table]
        ELSE [error |-> PGRST116, data |-> Null, table |-> table]

\* the names that contain the substring, whatever the case: ILIKE '%nome%'
Substrings == {<<"an", "Ana">>, <<"Ana", "Ana">>}

\* .from('pessoa').select('*').ilike('nome', `%${nome}%`): the rows, in no
\* particular order
selectIlike(table, nome) ==
    [error |-> NoError, data |-> Some({r \in table : <<nome, r.nome>> \in Substrings}), table |-> table]

\* .from('pessoa').select('*').order('nome'): all rows (rows of equal nome
\* in no particular order)
selectAll(table) == [error |-> NoError, data |-> Some(table), table |-> table]

\* the query text of findByEmail / findByTelefone (a template literal)
sqlOf(col, val) == "SELECT * FROM pessoa WHERE " \o col \o " = '" \o val \o "'"

\* .rpc('execute_raw_query', { query_text: sql }) when the function exists:
\* the rows the text selects, as an array (here: zero or one row)
rpcRows(table, col, val) ==
    LET hit == {r \in table : r[col] = val}
    IN  IF hit = {} THEN <<>> ELSE <<CHOOSE r \in hit : TRUE>>

\* the text of the statement a lookup sends to storage: the rpc sends the
\* template literal as query_text, the query builder sends a fixed statement
\* with the value as the argument of .eq
sentText(r) ==
    IF r.pc = "rpc" THEN r.sql
    ELSE ".from('pessoa').select('*').eq('" \o r.col \o "', $1).single()"

(* ----------------------------- requests ------------------------------- *)

\* two requests are served at a time
Slots == {1, 2}

Idle == [pc |-> "idle"]

NoEv == [kind |-> "none"]

\* no storage answer yet
NoResp == [error |-> "", data |-> <<>>, seq |-> 0]

AllIdle == \A p \in Slots : req[p].pc = "idle"

WriteOps == {"create", "update", "delete"}

\* history kept in step with the cache: the versions of the entries of c2,
\* where the entry written by this step (if any) carries version seq
seqOf(c2, written, seq) ==
    [k \in DOMAIN c2 |-> IF k \in written THEN seq ELSE cacheSeq[k]]

\* the first part of the message of the Error each method throws
prefixOf(op) ==
    CASE op = "create" -> "Erro ao criar pessoa: "
      [] op = "update" -> "Erro ao atualizar pessoa: "
      [] op = "delete" -> "Erro ao deletar pessoa: "
      [] op = "getById" -> "Erro ao buscar pessoa: "
      [] op = "findByName" -> "Erro ao buscar por nome: "
      [] op = "findByEmail" -> "Erro ao buscar por email: "
      [] op = "findByTelefone" -> "Erro ao buscar por telefone: "
      [] OTHER -> "Erro ao listar pessoas: "

\* throw new Error(`Erro ao ...: ${error.message}`)
thrown(op, code) == [name |-> "Error", message |-> <<prefixOf(op), messageOf(code)>>]

\* the rejection of crypto.subtle.digest, which nothing catches before the router
digestRejected == [name |-> "OperationError", message |-> <<"digest">>]

\* the value a call hands back to the router, with what the call did
returned(p, ok, value, seq, hit, calls, sizeBefore) ==
    [kind |-> "return", slot |-> p, op |-> req[p].op, arg |-> req[p].arg, ok |-> ok,
     error |-> IF ok THEN Null
               ELSE IF req[p].pc = "digest" THEN Some(digestRejected)
               ELSE Some(thrown(req[p].op, req[p].resp.error)),
     value |-> value, seq |-> seq, startSeq |-> req[p].startSeq, hit |-> hit,
     acc |-> req[p].acc, calls |-> calls, sizeBefore |-> sizeBefore, at |-> now,
     changed |-> req[p].changed \/ "set" \in {calls[i] : i \in DOMAIN calls}]

\* a storage statement that could not be carried out
storageDown == [error |-> StorageDown, data |-> Null, seq |-> commitSeq]

\* the storage statements behind an await: the table executes the statement
\* some time after the call and before the continuation runs
answer(p, r, nextPc) ==
    /\ req' = [req EXCEPT ![p] = [@ EXCEPT !.pc = nextPc, !.acc = @ + 1,
                                           !.resp = [error |-> r.error, data |-> r.data, seq |-> commitSeq']]]
    /\ ev' = NoEv
    /\ UNCHANGED <<nCalls, now, ticks, cache, cacheSeq, setLog, retSeq>>

\* the statement fails (connectivity): the table is unchanged
storage_fails(p) ==
    /\ req[p].pc \in {"insert", "update", "delete", "rpc", "select", "ilike", "list"}
    /\ UNCHANGED <<db, nextId, commitSeq>>
    /\ answer(p, storageDown, req[p].pc \o "_resp")

(* ------------------------------ PessoaDAO ----------------------------- *)

\* create(data): up to the await
create_call(p, data) ==
    /\ req[p].pc = "idle"
    /\ nCalls' = nCalls + 1
    /\ req' = [req EXCEPT ![p] = [pc |-> "insert", op |-> "create", arg |-> data,
                                   startSeq |-> retSeq, acc |-> 0, changed |-> FALSE, resp |-> NoResp]]
    /\ ev' = NoEv
    /\ UNCHANGED <<now, ticks, cache, cacheSeq, setLog, db, nextId, commitSeq, retSeq>>

\* the table executes the INSERT
create_insert(p) ==
    /\ req[p].pc = "insert"
    /\ LET r == insertSingle(db, req[p].arg, nextId)
       IN  /\ db' = r.table
           /\ nextId' = IF r.error = NoError THEN nextId + 1 ELSE nextId
           /\ commitSeq' = IF r.error = NoError THEN commitSeq + 1 ELSE commitSeq
           /\ answer(p, r, "insert_resp")

\* a write that clears the cache before it looks at the error
write_return_invalidate_first(p, pcResp, value) ==
    /\ req[p].pc = pcResp
    /\ cache' = invalidateAll(cache)
    /\ cacheSeq' = seqOf(cache', {}, 0)
    /\ IF req[p].resp.error # NoError
       THEN /\ ev' = returned(p, FALSE, Null, req[p].resp.seq, FALSE, <<>>, Cardinality(DOMAIN cache))
            /\ UNCHANGED retSeq
       ELSE /\ retSeq' = IF req[p].resp.seq > retSeq THEN req[p].resp.seq ELSE retSeq
            /\ ev' = returned(p, TRUE, value, req[p].resp.seq, FALSE, <<"invalidateAll">>,
                              Cardinality(DOMAIN cache))
    /\ req' = [req EXCEPT ![p] = Idle]
    /\ UNCHANGED <<nCalls, now, ticks, setLog, db, nextId, commitSeq>>

\* the continuation of a write after its await: throw on error, else
\* cache.invalidateAll() and return
write_return(p, pcResp, value) ==
    /\ req[p].pc = pcResp
    /\ IF req[p].resp.error # NoError
       THEN /\ ev' = returned(p, FALSE, Null, req[p].resp.seq, FALSE, <<>>, Cardinality(DOMAIN cache))
            /\ UNCHANGED <<cache, cacheSeq, retSeq>>
       ELSE /\ cache' = invalidateAll(cache)
            /\ cacheSeq' = seqOf(cache', {}, 0)
            /\ retSeq' = IF req[p].resp.seq > retSeq THEN req[p].resp.seq ELSE retSeq
            /\ ev' = returned(p, TRUE, value, req[p].resp.seq, FALSE, <<"invalidateAll">>,
                              Cardinality(DOMAIN cache))
    /\ req' = [req EXCEPT ![p] = Idle]
    /\ UNCHANGED <<nCalls, now, ticks, setLog, db, nextId, commitSeq>>

create_return(p) == write_return(p, "insert_resp", req[p].resp.data)

\* update(id, data): up to the await
update_call(p, id, patch) ==
    /\ req[p].pc = "idle"
    /\ nCalls' = nCalls + 1
    /\ req' = [req EXCEPT ![p] = [pc |-> "update", op |-> "update", arg |-> [id |-> id, data |-> patch],
                                   startSeq |-> retSeq, acc |-> 0, changed |-> FALSE, resp |-> NoResp]]
    /\ ev' = NoEv
    /\ UNCHANGED <<now, ticks, cache, cacheSeq, setLog, db, nextId, commitSeq, retSeq>>

\* the table executes the UPDATE
update_update(p) ==
    /\ req[p].pc = "update"
    /\ LET r == updateSingle(db, req[p].arg.id, req[p].arg.data)
       IN  /\ db' = r.table
           /\ commitSeq' = IF r.error = NoError THEN commitSeq + 1 ELSE commitSeq
           /\ UNCHANGED nextId
           /\ answer(p, r, "update_resp")

\* update that returns without invalidating the cache
update_return_no_invalidate(p) ==
    /\ req[p].pc = "update_resp"
    /\ ev' = returned(p, req[p].resp.error = NoError, req[p].resp.data, req[p].resp.seq, FALSE, <<>>,
                      Cardinality(DOMAIN cache))
    /\ retSeq' = IF req[p].resp.error = NoError /\ req[p].resp.seq > retSeq THEN req[p].resp.seq ELSE retSeq
    /\ req' = [req EXCEPT ![p] = Idle]
    /\ UNCHANGED <<nCalls, now, ticks, cache, cacheSeq, setLog, db, nextId, commitSeq>>

update_return(p) == write_return(p, "update_resp", req[p].resp.data)

\* delete(id): up to the await
delete_call(p, id) ==
    /\ req[p].pc = "idle"
    /\ nCalls' = nCalls + 1
    /\ req' = [req EXCEPT ![p] = [pc |-> "delete", op |-> "delete", arg |-> [id |-> id],
                                   startSeq |-> retSeq, acc |-> 0, changed |-> FALSE, resp |-> NoResp]]
    /\ ev' = NoEv
    /\ UNCHANGED <<now, ticks, cache, cacheSeq, setLog, db, nextId, commitSeq, retSeq>>

\* the table executes the DELETE
delete_delete(p) ==
    /\ req[p].pc = "delete"
    /\ LET r == deleteEq(db, req[p].arg.id)
       IN  /\ db' = r.table
           /\ commitSeq' = commitSeq + 1
           /\ UNCHANGED nextId
           /\ answer(p, r, "delete_resp")

\* delete that returns true without invalidating the cache
delete_return_no_invalidate(p) ==
    /\ req[p].pc = "delete_resp"
    /\ ev' = returned(p, req[p].resp.error = NoError, Some(TRUE), req[p].resp.seq, FALSE, <<>>,
                      Cardinality(DOMAIN cache))
    /\ retSeq' = IF req[p].resp.error = NoError /\ req[p].resp.seq > retSeq THEN req[p].resp.seq ELSE retSeq
    /\ req' = [req EXCEPT ![p] = Idle]
    /\ UNCHANGED <<nCalls, now, ticks, cache, cacheSeq, setLog, db, nextId, commitSeq>>

\* return true
delete_return(p) == write_return(p, "delete_resp", Some(TRUE))

\* findByEmail / findByTelefone up to the await of generateKey: the query
\* text is built and the digest is requested
lookup_call(p, op, col, val) ==
    /\ req[p].pc = "idle"
    /\ nCalls' = nCalls + 1
    /\ req' = [req EXCEPT ![p] = [pc |-> "digest", op |-> op, arg |-> val, col |-> col,
                                   sql |-> sqlOf(col, val), key |-> <<>>, startSeq |-> retSeq, acc |-> 0, changed |-> FALSE, resp |-> NoResp]]
    /\ ev' = NoEv
    /\ UNCHANGED <<now, ticks, cache, cacheSeq, setLog, db, nextId, commitSeq, retSeq>>

\* the digest is there: cache.get(cacheKey); a hit returns the cached
\* record, a miss sends the first storage statement
lookup_cache(p, op, missPc) ==
    /\ req[p].pc = "digest"
    /\ req[p].op = op
    /\ LET key == generateKey(req[p].sql)
           g == get(cache, key, now)
       IN  /\ cache' = g.cache
           /\ cacheSeq' = seqOf(g.cache, {}, 0)
           /\ IF g.value # Null
              THEN /\ ev' = returned(p, TRUE, g.value, cacheSeq[key], TRUE, <<"get">>,
                                     Cardinality(DOMAIN cache))
                   /\ req' = [req EXCEPT ![p] = Idle]
              ELSE /\ ev' = NoEv
                   /\ req' = [req EXCEPT ![p] = [@ EXCEPT !.pc = missPc, !.key = key,
                                                          !.changed = g.cache # cache]]
    /\ UNCHANGED <<nCalls, now, ticks, setLog, db, nextId, commitSeq, retSeq>>

\* if (pessoa) cache.set(cacheKey, pessoa); return pessoa || null
lookup_store(p, pessoa) ==
    /\ IF pessoa # Null
       THEN /\ cache' = set(cache, req[p].key, pessoa[1], Omitted, now)
            /\ cacheSeq' = seqOf(cache', {req[p].key}, req[p].resp.seq)
            /\ ev' = returned(p, TRUE, pessoa, req[p].resp.seq, FALSE, <<"set">>,
                              Cardinality(DOMAIN cache))
       ELSE /\ ev' = returned(p, TRUE, Null, req[p].resp.seq, FALSE, <<>>,
                              Cardinality(DOMAIN cache))
            /\ UNCHANGED <<cache, cacheSeq>>
    /\ req' = [req EXCEPT ![p] = Idle]
    /\ UNCHANGED <<nCalls, now, ticks, setLog, db, nextId, commitSeq, retSeq>>

\* the continuation after .eq(col, val).single(): an error other than
\* PGRST116 is thrown, else the row (if any) is cached and returned
lookup_select_return(p, op) ==
    /\ req[p].pc = "select_resp"
    /\ req[p].op = op
    /\ IF req[p].resp.error # NoError /\ req[p].resp.error # PGRST116
       THEN /\ ev' = returned(p, FALSE, Null, req[p].resp.seq, FALSE, <<>>, Cardinality(DOMAIN cache))
            /\ req' = [req EXCEPT ![p] = Idle]
            /\ UNCHANGED <<nCalls, now, ticks, cache, cacheSeq, setLog, db, nextId, commitSeq, retSeq>>
       ELSE lookup_store(p, req[p].resp.data)

\* the table executes SELECT ... WHERE col = val
lookup_select(p) ==
    /\ req[p].pc = "select"
    /\ UNCHANGED <<db, nextId, commitSeq>>
    /\ answer(p, selectSingle(db, req[p].col, req[p].arg), "select_resp")

findByEmail_call(p, email) == lookup_call(p, "findByEmail", "email", email)

findByEmail_cache(p) == lookup_cache(p, "findByEmail", "rpc")

\* execute_raw_query runs the query text and answers with its rows
findByEmail_rpc(p) ==
    /\ req[p].pc = "rpc"
    /\ UNCHANGED <<db, nextId, commitSeq>>
    /\ answer(p, [error |-> NoError, data |-> Some(rpcRows(db, req[p].col, req[p].arg))], "rpc_resp")

\* execute_raw_query is not installed, or answers without data
findByEmail_rpc_missing(p) ==
    /\ req[p].pc = "rpc"
    /\ UNCHANGED <<db, nextId, commitSeq>>
    /\ \E e \in {NoError, NoFunction} :
          answer(p, [error |-> e, data |-> Null], "rpc_resp")

\* the continuation after the rpc: fall back to the select when the rpc
\* failed or gave no data, else take data[0]
findByEmail_after_rpc(p) ==
    /\ req[p].pc = "rpc_resp"
    /\ IF req[p].resp.error # NoError \/ req[p].resp.data = Null
       THEN /\ req' = [req EXCEPT ![p] = [@ EXCEPT !.pc = "select"]]
            /\ ev' = NoEv
            /\ UNCHANGED <<nCalls, now, ticks, cache, cacheSeq, setLog, db, nextId, commitSeq, retSeq>>
       ELSE LET data == req[p].resp.data[1]
            IN  lookup_store(p, IF Len(data) = 0 THEN Null ELSE Some(data[1]))

findByEmail_return(p) == lookup_select_return(p, "findByEmail")

findByTelefone_call(p, telefone) == lookup_call(p, "findByTelefone", "telefone", telefone)

findByTelefone_cache(p) == lookup_cache(p, "findByTelefone", "select")

findByTelefone_return(p) == lookup_select_return(p, "findByTelefone")

\* the digest is rejected: the await in findByEmail / findByTelefone throws
lookup_digest_rejected(p) ==
    /\ req[p].pc = "digest"
    /\ ev' = returned(p, FALSE, Null, 0, FALSE, <<>>, Cardinality(DOMAIN cache))
    /\ req' = [req EXCEPT ![p] = Idle]
    /\ UNCHANGED <<nCalls, now, ticks, cache, cacheSeq, setLog, db, nextId, commitSeq, retSeq>>

\* a read that does not use the cache: up to its await
read_call(p, op, col, val, pc) ==
    /\ req[p].pc = "idle"
    /\ nCalls' = nCalls + 1
    /\ req' = [req EXCEPT ![p] = [pc |-> pc, op |-> op, arg |-> val, col |-> col,
                                   startSeq |-> retSeq, acc |-> 0, changed |-> FALSE, resp |-> NoResp]]
    /\ ev' = NoEv
    /\ UNCHANGED <<now, ticks, cache, cacheSeq, setLog, db, nextId, commitSeq, retSeq>>

\* its continuation: an error is thrown (for getById: unless PGRST116,
\* which gives null), else the data is returned
read_return(p, op, pcResp, notFound) ==
    /\ req[p].pc = pcResp
    /\ req[p].op = op
    /\ ev' = IF req[p].resp.error = NoError
             THEN returned(p, TRUE, req[p].resp.data, req[p].resp.seq, FALSE, <<>>, Cardinality(DOMAIN cache))
             ELSE IF req[p].resp.error \in notFound
             THEN returned(p, TRUE, Null, req[p].resp.seq, FALSE, <<>>, Cardinality(DOMAIN cache))
             ELSE returned(p, FALSE, Null, req[p].resp.seq, FALSE, <<>>, Cardinality(DOMAIN cache))
    /\ req' = [req EXCEPT ![p] = Idle]
    /\ UNCHANGED <<nCalls, now, ticks, cache, cacheSeq, setLog, db, nextId, commitSeq, retSeq>>

\* getById that stores the record it found in the cache
getById_return_caching(p) ==
    /\ req[p].pc = "select_resp"
    /\ req[p].op = "getById"
    /\ LET key == generateKey("SELECT * FROM pessoa WHERE id = ?")
           found == req[p].resp.error = NoError
       IN  /\ cache' = IF found THEN set(cache, key, req[p].resp.data[1], Omitted, now) ELSE cache
           /\ cacheSeq' = IF found THEN seqOf(cache', {key}, req[p].resp.seq) ELSE cacheSeq
           /\ ev' = returned(p, found \/ req[p].resp.error = PGRST116, req[p].resp.data, req[p].resp.seq,
                             FALSE, <<>>, Cardinality(DOMAIN cache))
    /\ req' = [req EXCEPT ![p] = Idle]
    /\ UNCHANGED <<nCalls, now, ticks, setLog, db, nextId, commitSeq, retSeq>>

getById_call(p, id) == read_call(p, "getById", "id", id, "select")

getById_return(p) == read_return(p, "getById", "select_resp", {PGRST116})

findByName_call(p, nome) == read_call(p, "findByName", "nome", nome, "ilike")

\* the table executes SELECT ... WHERE nome ILIKE
findByName_ilike(p) ==
    /\ req[p].pc = "ilike"
    /\ UNCHANGED <<db, nextId, commitSeq>>
    /\ answer(p, selectIlike(db, req[p].arg), "ilike_resp")

\* return pessoas || []
findByName_return(p) == read_return(p, "findByName", "ilike_resp", {})

listAll_call(p) == read_call(p, "listAll", "nome", "", "list")

\* the table executes SELECT ... ORDER BY nome
listAll_select(p) ==
    /\ req[p].pc = "list"
    /\ UNCHANGED <<db, nextId, commitSeq>>
    /\ answer(p, selectAll(db), "list_resp")

listAll_return(p) == read_return(p, "listAll", "list_resp", {})

\* Date.now() moves on
Tick(d) ==
    /\ ticks < MaxTicks
    /\ now' = now + d
    /\ ticks' = ticks + 1
    /\ ev' = NoEv
    /\ UNCHANGED <<nCalls, cache, cacheSeq, setLog, db, nextId, commitSeq, retSeq, req>>

(* -------------------------------- serve ------------------------------- *)

\* url.searchParams.get(...) of a parameter that is absent or empty: falsy
NoParam == ""

\* no request has reached the slot
NoRequest == [method |-> "none"]

\* the branch of the handler a request takes, in the order of its tests
route(r) ==
    IF r.method = "OPTIONS" THEN "options"
    ELSE IF r.method = "GET" /\ Len(r.pathParts) = 1 THEN "listAll"
    ELSE IF r.method = "GET" /\ Len(r.pathParts) = 2 THEN "getById"
    ELSE IF r.method = "POST"
         THEN (IF "nome" \notin DOMAIN r.body \/ "email" \notin DOMAIN r.body THEN "invalid" ELSE "create")
    ELSE IF r.method = "PUT" /\ Len(r.pathParts) = 2 THEN "update"
    ELSE IF r.method = "DELETE" /\ Len(r.pathParts) = 2 THEN "delete"
    ELSE IF r.method = "GET" /\ r.search # NoParam /\ r.value # NoParam
         THEN (CASE r.search = "nome" -> "findByName"
                 [] r.search = "email" -> "findByEmail"
                 [] r.search = "telefone" -> "findByTelefone"
                 [] OTHER -> "badSearch")
    ELSE "notFound"

\* new Response(JSON.stringify(body), { status })
Response(status, body) == [status |-> status, body |-> body]

\* the responses the handler gives without calling the DAO
direct(to) ==
    CASE to = "options" -> Response(200, Null)
      [] to = "invalid" -> Response(400, [error |-> <<"Nome e email são obrigatórios">>])
      [] to = "badSearch" -> Response(400, [error |-> <<"Tipo de busca inválido">>])
      [] OTHER -> Response(404, [error |-> <<"Endpoint não encontrado">>])

\* the response the handler gives once the DAO call e of request r has
\* returned or thrown, the cache being c
respond(r, e, c) ==
    IF ~e.ok THEN Response(500, [error |-> e.error[1].message])
    ELSE CASE route(r) = "listAll" -> Response(200, [data |-> e.value, cache |-> getStats(c)])
           [] route(r) = "getById" ->
                IF e.value = Null THEN Response(404, [error |-> <<"Pessoa não encontrada">>])
                ELSE Response(200, [data |-> e.value])
           [] route(r) = "create" -> Response(201, [data |-> e.value])
           [] route(r) = "update" -> Response(200, [data |-> e.value])
           [] route(r) = "delete" -> Response(200, [success |-> TRUE])
           [] OTHER -> Response(200, [data |-> e.value, cache |-> getStats(c)])

\* serve(async (req) => ...): the handler up to its first storage await, or
\* to its response when the DAO is not called
serve(p, r) ==
    /\ req[p].pc = "idle"
    /\ http' = [http EXCEPT ![p] = r]
    /\ CASE route(r) = "listAll" -> listAll_call(p)
         [] route(r) = "getById" -> getById_call(p, r.pathParts[2])
         [] route(r) = "create" -> create_call(p, r.body)
         [] route(r) = "update" -> update_call(p, r.pathParts[2], r.body)
         [] route(r) = "delete" -> delete_call(p, r.pathParts[2])
         [] route(r) = "findByName" -> findByName_call(p, r.value)
         [] route(r) = "findByEmail" -> findByEmail_call(p, r.value)
         [] route(r) = "findByTelefone" -> findByTelefone_call(p, r.value)
         [] OTHER ->
              /\ ev' = [kind |-> "response", slot |-> p, response |-> direct(route(r))]
              /\ UNCHANGED <<nCalls, now, ticks, cache, cacheSeq, setLog, db, nextId, commitSeq, retSeq, req>>

\* create called on the DAO without the handler
dao_create(p, data) ==
    /\ create_call(p, data)
    /\ http' = [http EXCEPT ![p] = NoRequest]

NoResponse == Response(0, Null)

\* the response that leaves the handler in this state, if one does
response ==
    IF ev.kind = "response" THEN ev.response
    ELSE IF ev.kind = "return" /\ http[ev.slot] # NoRequest THEN respond(http[ev.slot], ev, cache)
    ELSE NoResponse

(* ------------------- the CacheManager called directly ------------------ *)

\* the keys of the two cached queries
CacheKeys == {generateKey(sqlOf("email", "ana@x.com")), generateKey(sqlOf("telefone", "111"))}

\* opaque payloads
Payloads == {"v1", "v2"}

\* ttlSeconds as passed to set: left out, or zero
TtlArgs == {Omitted, Some(0)}

\* a method of the CacheManager was called: what it was given, what the
\* entry for the key was before, and what it returned
called(op, key, before, result) ==
    [kind |-> "cache", op |-> op, key |-> key, result |-> result, at |-> now,
     before |-> IF key \in DOMAIN before THEN Some(before[key]) ELSE Null,
     sizeBefore |-> Cardinality(DOMAIN before)]

dropLog(keys) == [k \in (DOMAIN setLog) \ keys |-> setLog[k]]

cache_get(key) ==
    /\ cache' = get(cache, key, now).cache
    /\ ev' = called("get", key, cache, get(cache, key, now).value)
    /\ UNCHANGED <<now, ticks, cacheSeq, setLog, db, nextId, commitSeq, retSeq, req, nCalls>>

cache_set(key, data, ttlSeconds) ==
    /\ cache' = set(cache, key, data, ttlSeconds, now)
    /\ setLog' = [k \in (DOMAIN setLog) \cup {key} |->
                    IF k = key
                    THEN [data |-> data, t0 |-> now,
                          T |-> IF ttlSeconds = Omitted THEN defaultTTLSeconds ELSE ttlSeconds[1]]
                    ELSE setLog[k]]
    /\ ev' = called("set", key, cache, Null)
    /\ UNCHANGED <<now, ticks, cacheSeq, db, nextId, commitSeq, retSeq, req, nCalls>>

cache_evict(key) ==
    /\ cache' = evict(cache, key).cache
    /\ setLog' = dropLog({key})
    /\ ev' = called("evict", key, cache, Some(evict(cache, key).existed))
    /\ UNCHANGED <<now, ticks, cacheSeq, db, nextId, commitSeq, retSeq, req, nCalls>>

cache_invalidateAll ==
    /\ cache' = invalidateAll(cache)
    /\ setLog' = dropLog(DOMAIN setLog)
    /\ ev' = called("invalidateAll", <<>>, cache, Null)
    /\ UNCHANGED <<now, ticks, cacheSeq, db, nextId, commitSeq, retSeq, req, nCalls>>

cache_cleanup ==
    /\ cache' = cleanup(cache, now).cache
    /\ ev' = called("cleanup", <<>>, cache, Some(cleanup(cache, now).removed))
    /\ UNCHANGED <<now, ticks, cacheSeq, setLog, db, nextId, commitSeq, retSeq, req, nCalls>>

\* getStats that sweeps the expired entries on its way
cache_getStats_sweeping ==
    /\ cache' = cleanup(cache, now).cache
    /\ ev' = called("getStats", <<>>, cache, Some(getStats(cache')))
    /\ UNCHANGED <<now, ticks, cacheSeq, setLog, db, nextId, commitSeq, retSeq, req, nCalls>>

cache_getStats ==
    /\ ev' = called("getStats", <<>>, cache, Some(getStats(cache)))
    /\ UNCHANGED <<now, ticks, cache, cacheSeq, setLog, db, nextId, commitSeq, retSeq, req, nCalls>>

(* ------------- supabase/functions/voice-chat/index.ts ------------------ *)

\* String.prototype.trim, on a text given as the sequence of its characters
RECURSIVE trimStart(_)
trimStart(s) == IF s # <<>> /\ Head(s) = " " THEN trimStart(Tail(s)) ELSE s

RECURSIVE trimEnd(_)
trimEnd(s) == IF s # <<>> /\ s[Len(s)] = " " THEN trimEnd(SubSeq(s, 1, Len(s) - 1)) ELSE s

trim(s) == trimEnd(trimStart(s))

\* the test of the transcription without the trim
isBlank_untrimmed(text) == text = Null \/ text[1] = <<>>

\* !transcription.text?.trim(): no text, or nothing but white space
isBlank(text) == text = Null \/ trim(text[1]) = <<>>

\* the test of the chat output that lets the empty string pass
noOutput_undefined_only(output) == output = Null

\* !output: undefined or the empty string
noOutput(output) == output = Null \/ output[1] = <<>>

\* the values formData.get gives: null, a string, or a File
NoField == [kind |-> "null", value |-> "", size |-> 0, type |-> ""]

StringField(v) == [kind |-> "string", value |-> v, size |-> 0, type |-> ""]

File(size, type) == [kind |-> "File", value |-> "", size |-> size, type |-> type]

\* file.type.includes("webm") || file.type.includes("ogg")
isWebmOrOgg(type) == type \in {"audio/webm", "audio/webm;codecs=opus", "audio/ogg;codecs=opus"}

\* safeFile: the file itself, or its bytes as audio/webm
safeFile(file) == IF isWebmOrOgg(file.type) THEN file ELSE File(file.size, "audio/webm")

\* a body that req.formData() rejects
BadForm == [parsed |-> FALSE, file |-> NoField, transcriptOnly |-> NoField]

\* the forms a client may send
Forms ==
    {BadForm} \cup
    [parsed : {TRUE},
     file : {NoField, StringField("audio"), File(0, "audio/webm"), File(1, "audio/webm"), File(1, "audio/mp4"),
             File(2, "audio/ogg;codecs=opus")},
     transcriptOnly : {NoField, StringField("true"), StringField("false")}]

VoiceRequests == [method : {"OPTIONS", "GET"}, form : {BadForm}] \cup [method : {"POST"}, form : Forms]

NoVoiceRequest == [method |-> "none", form |-> BadForm]

\* what openai.audio.transcriptions.create does: it throws an Error or
\* something else, or resolves with a text that may be missing or blank
TranscriptionOutcomes ==
    {[threw |-> TRUE, isError |-> TRUE, message |-> "401 Incorrect API key", text |-> Null],
     [threw |-> TRUE, isError |-> FALSE, message |-> "", text |-> Null]}
    \cup [threw : {FALSE}, isError : {FALSE}, message : {""},
          text : {Null, Some(<<>>), Some(<<" ">>), Some(<<"o", "i">>), Some(<<" ", "o", "i">>)}]

\* what openai.responses.create does
ChatOutcomes ==
    {[threw |-> TRUE, isError |-> TRUE, message |-> "429 Rate limit", output |-> Null],
     [threw |-> TRUE, isError |-> FALSE, message |-> "", output |-> Null]}
    \cup [threw : {FALSE}, isError : {FALSE}, message : {""},
          output : {Null, Some(<<>>), Some(<<"o", "k">>)}]

NoVoice ==
    [pc |-> "idle", request |-> NoVoiceRequest, calls |-> <<>>, got |-> <<>>, transcript |-> Null,
     response |-> NoResponse]

\* serve(async (req) => ...) up to await req.formData()
voice_serve(r) ==
    /\ voice.pc = "idle"
    /\ voice' = [pc |-> IF r.method = "POST" THEN "formData" ELSE "idle",
                 request |-> r, calls |-> <<>>, got |-> <<>>, transcript |-> Null,
                 response |-> IF r.method = "OPTIONS" THEN Response(200, Null)
                              ELSE IF r.method # "POST"
                              THEN Response(405, [error |-> "Método não permitido"])
                              ELSE NoResponse]

\* the form is there: the test of 'file', and transcribeAudio up to its await
voice_formData ==
    /\ voice.pc = "formData"
    /\ LET form == voice.request.form
           replies(r) == voice' = [voice EXCEPT !.pc = "idle", !.response = r]
       IN  IF ~form.parsed
           THEN replies(Response(500, [error |-> "Failed to parse body as FormData"]))
           ELSE IF form.file.kind # "File"
           THEN replies(Response(400, [error |-> "Campo 'file' não enviado corretamente"]))
           ELSE IF form.file.size = 0
           THEN replies(Response(500, [error |-> "Arquivo de áudio inválido ou vazio"]))
           ELSE voice' = [voice EXCEPT !.pc = "transcription",
                              !.calls = <<[provider |-> "transcription", input |-> safeFile(form.file)]>>]

\* transcribeAudio after its await, and the handler up to generateResponse
voice_transcribeAudio(o) ==
    /\ voice.pc = "transcription"
    /\ LET v == [voice EXCEPT !.got = Append(@, o)]
       IN  IF o.threw THEN voice' = [v EXCEPT !.pc = "idle",
                                       !.response = Response(500, [error |-> IF o.isError THEN o.message
                                                                              ELSE "Erro interno"])]
           ELSE IF isBlank(o.text)
           THEN voice' = [v EXCEPT !.pc = "idle", !.response = Response(500, [error |-> "Transcrição vazia"])]
           ELSE IF voice.request.form.transcriptOnly = StringField("true")
           THEN voice' = [v EXCEPT !.pc = "idle", !.transcript = o.text,
                                   !.response = Response(200, [transcript |-> o.text[1]])]
           ELSE voice' = [v EXCEPT !.pc = "chat", !.transcript = o.text,
                                   !.calls = Append(@, [provider |-> "chat", input |-> o.text[1]])]

\* generateResponse after its await, and the success response
voice_generateResponse(o) ==
    /\ voice.pc = "chat"
    /\ LET v == [voice EXCEPT !.got = Append(@, o)]
       IN  IF o.threw THEN voice' = [v EXCEPT !.pc = "idle",
                                       !.response = Response(500, [error |-> IF o.isError THEN o.message
                                                                              ELSE "Erro interno"])]
           ELSE IF noOutput(o.output)
           THEN voice' = [v EXCEPT !.pc = "idle", !.response = Response(500, [error |-> "Resposta do chat vazia"])]
           ELSE voice' = [v EXCEPT !.pc = "idle",
                                   !.response = Response(200, [success |-> TRUE, transcript |-> voice.transcript[1],
                                                               response |-> o.output[1]])]

(* --------- useAudioRecorder, AudioRecorder, Index (the page) ----------- *)

\* the hook before the component mounts: version is which of the two
\* useAudioRecorder sources is in use (0: not mounted); state and audioBlob
\* are its React state, pc is where startRecording waits, mr the state of
\* the MediaRecorder (stopping: stop() called, the stop event not yet
\* fired); streamRef, intervalRef and animRef tell whether the ref is
\* set, streams, intervals and anims count the live objects; elapsed is
\* the seconds since the start; n counts the calls of startRecording, rec
\* is the call that made the MediaRecorder, idles counts the times the
\* state was set to 'idle'
NoRecorder ==
    [version |-> 0, state |-> "idle", audioBlob |-> Null, pc |-> "none", mr |-> "none",
     streamRef |-> FALSE, streams |-> 0, intervalRef |-> FALSE, intervals |-> 0,
     animRef |-> FALSE, anims |-> 0, elapsed |-> 0, n |-> 0, rec |-> 0, idles |-> 0]

\* AudioRecorder: hasSentRef and the state and prop of its last render;
\* Index: its state, where handleRecordingComplete waits and how its last
\* invocation ended; sent is the log of the calls of onRecordingComplete
NoPage ==
    [hasSent |-> FALSE, seen |-> [state |-> "idle", isProcessing |-> FALSE], sent |-> <<>>,
     pc |-> "idle", outcome |-> "none", result |-> Null,
     isProcessing |-> FALSE, isTranscribing |-> FALSE, isGenerating |-> FALSE,
     transcript |-> Null, response |-> Null]

\* stopRecording()
stopRecording(r) ==
    [r EXCEPT !.state = IF r.version = 2 /\ r.mr = "recording" THEN "stopping" ELSE @,
              !.mr = IF @ = "recording" THEN "stopping" ELSE @,
              !.streams = IF r.streamRef THEN @ - 1 ELSE @,
              !.streamRef = FALSE,
              !.intervals = IF r.intervalRef THEN @ - 1 ELSE @,
              !.intervalRef = FALSE,
              !.anims = IF r.animRef THEN @ - 1 ELSE @,
              !.animRef = FALSE]

\* Index.handleRecordingComplete up to await processVoiceChat(audioBlob)
handleRecordingComplete(pg, blob) ==
    IF blob.size = 0 THEN pg
    ELSE [pg EXCEPT !.isProcessing = TRUE, !.isTranscribing = TRUE, !.isGenerating = FALSE,
                    !.transcript = Null, !.response = Null, !.pc = "backend", !.outcome = "none"]

\* the completion effect without the hasSentRef flag
effects_unguarded(pg, r) ==
    LET send == r.state = "processing" /\ r.audioBlob # Null /\ r.audioBlob[1].size > 0
        p1 == IF send
              THEN [handleRecordingComplete(pg, r.audioBlob[1]) EXCEPT
                       !.sent = Append(@, [blob |-> r.audioBlob[1], epoch |-> r.idles])]
              ELSE pg
    IN  [p1 EXCEPT !.seen = [state |-> r.state, isProcessing |-> p1.isProcessing]]

\* a render of AudioRecorder with hook state r and its two effects: the
\* completion effect, then the reset of hasSentRef in state 'idle'
effects(pg, r) ==
    LET send == r.state = "processing" /\ r.audioBlob # Null /\ r.audioBlob[1].size > 0 /\ ~pg.hasSent
        p1 == IF send
              THEN [handleRecordingComplete(pg, r.audioBlob[1]) EXCEPT
                       !.hasSent = TRUE,
                       !.sent = Append(@, [blob |-> r.audioBlob[1], epoch |-> r.idles])]
              ELSE pg
        p2 == IF r.state = "idle" THEN [p1 EXCEPT !.hasSent = FALSE] ELSE p1
    IN  [p2 EXCEPT !.seen = [state |-> r.state, isProcessing |-> p2.isProcessing]]

\* a step of the page: the hook and the components change, nothing else
ui(r, pg) == recorder' = r /\ page' = pg /\ UNCHANGED <<dao, voice>>

\* AudioRecorder mounts with one of the two hooks
mount(v) ==
    /\ recorder.version = 0
    /\ LET r == [NoRecorder EXCEPT !.version = v, !.idles = 1]
       IN  ui(r, effects(page, r))

\* a render for any reason (state set outside a React event, the parent
\* rendered, the callback changed identity)
render ==
    /\ recorder.version # 0
    /\ ui(recorder, effects(page, recorder))

\* onClick={handleMainAction}, with the state of the last render, and the
\* render that follows; startRecording runs up to await getUserMedia
click_main ==
    /\ recorder.version # 0
    /\ page.seen.state \notin {"requesting", "processing"} /\ ~page.seen.isProcessing
    /\ page.seen.state \in {"idle", "error"} => recorder.n < MaxRecordings
    /\ LET r == IF page.seen.state \in {"idle", "error"}
                THEN [recorder EXCEPT !.state = "requesting", !.pc = "getUserMedia", !.n = @ + 1,
                                      !.audioBlob = IF recorder.version = 2 THEN Null ELSE @]
                ELSE IF page.seen.state = "recording" THEN stopRecording(recorder)
                ELSE recorder
       IN  ui(r, effects(page, r))

\* onClick={reset}, shown in 'error' and in 'processing' while not
\* isProcessing, and the render that follows
click_reset ==
    /\ recorder.version # 0
    /\ page.seen.state = "error" \/ (page.seen.state = "processing" /\ ~page.seen.isProcessing)
    /\ LET r == [stopRecording(recorder) EXCEPT !.state = "idle", !.audioBlob = Null, !.elapsed = 0,
                                                !.idles = @ + 1]
       IN  ui(r, effects(page, r))

\* startRecording after await getUserMedia: the permission is denied, or
\* the stream is there and new MediaRecorder throws, or recording starts
startRecording_continues(o) ==
    /\ recorder.pc = "getUserMedia"
    /\ LET held == [recorder EXCEPT !.pc = "none", !.streamRef = TRUE, !.streams = @ + 1,
                                    !.animRef = TRUE, !.anims = @ + 1]
       IN  CASE o = "denied" -> ui([recorder EXCEPT !.pc = "none", !.state = "error"], page)
             [] o = "unsupported" -> ui([held EXCEPT !.state = "error"], page)
             [] OTHER -> ui([held EXCEPT !.mr = "recording", !.rec = recorder.n,
                                         !.state = "recording", !.elapsed = 0,
                                         !.intervalRef = TRUE, !.intervals = @ + 1], page)

\* the callback of setInterval(..., 1000): it sees e seconds elapsed
interval_tick(e) ==
    /\ recorder.intervals > 0
    /\ e > recorder.elapsed \/ e = maxDuration
    /\ ui([(IF e >= maxDuration THEN stopRecording(recorder) ELSE recorder) EXCEPT !.elapsed = e], page)

\* mediaRecorder.onstop / recorder.onstop: the chunks make a blob of the
\* given size
onstop(r, size) ==
    LET blob == [n |-> r.rec, size |-> size]
    IN  IF r.version = 2 /\ size = 0
        THEN [r EXCEPT !.mr = "inactive", !.state = "error"]
        ELSE [r EXCEPT !.mr = "inactive", !.audioBlob = Some(blob),
                       !.state = IF r.version = 2 THEN "ready" ELSE "processing"]

\* the stop event after mediaRecorder.stop()
recorder_onstop(size) ==
    /\ recorder.mr = "stopping"
    /\ ui(onstop(recorder, size), page)

\* the browser ends the recording itself (it cannot go on, or every track
\* of the stream ended): in one task it makes the recorder inactive and
\* fires error, dataavailable and stop, so mediaRecorder.onerror runs (first
\* hook only, the second sets no handler) and then onstop; stopRecording
\* is not called
recorder_onerror(size) ==
    /\ recorder.mr = "recording"
    /\ ui(onstop(IF recorder.version = 1 THEN [recorder EXCEPT !.state = "error"] ELSE recorder, size), page)

\* what processVoiceChat settles with
VoiceChatResults ==
    {[ok |-> FALSE, transcript |-> "", response |-> ""]}
    \cup [ok : {TRUE}, transcript : {"oi"}, response : {"", "ola"}]

\* handleRecordingComplete that leaves its flags alone when the call throws
processVoiceChat_settles_no_cleanup(res) ==
    /\ page.pc = "backend"
    /\ IF res.ok
       THEN ui(recorder, [page EXCEPT !.transcript = Some(res.transcript), !.isTranscribing = FALSE,
                                      !.isGenerating = TRUE, !.pc = "delay", !.result = Some(res)])
       ELSE ui(recorder, [page EXCEPT !.pc = "idle", !.outcome = "failed"])

\* handleRecordingComplete after await processVoiceChat: the transcript is
\* shown and the delay starts, or catch and finally clear the flags
processVoiceChat_settles(res) ==
    /\ page.pc = "backend"
    /\ IF res.ok
       THEN ui(recorder, [page EXCEPT !.transcript = Some(res.transcript), !.isTranscribing = FALSE,
                                      !.isGenerating = TRUE, !.pc = "delay", !.result = Some(res)])
       ELSE ui(recorder, [page EXCEPT !.isTranscribing = FALSE, !.isGenerating = FALSE,
                                      !.isProcessing = FALSE, !.pc = "idle", !.outcome = "failed"])

\* handleRecordingComplete after the 300 ms delay
delay_elapses ==
    /\ page.pc = "delay"
    /\ ui(recorder, [page EXCEPT !.response = Some(page.result[1].response), !.isGenerating = FALSE,
                                  !.isProcessing = FALSE, !.pc = "idle", !.outcome = "ok", !.result = Null])

(* --------------------------- specifications --------------------------- *)

CreateInputs(emails) == [nome : Names, email : emails, telefone : Phones \cup {NoPhone}]

Patches(emails) == [telefone : Phones \cup {NoPhone}] \cup [email : emails]

LookupOps == {"findByEmail", "findByTelefone"}

colOf(op) == IF op = "findByEmail" THEN "email" ELSE "telefone"

\* what is kept of a return: the call, its outcome, and for a lookup the
\* expiry of the entry its key has in the cache c when it returns
kept(e, c) ==
    [op |-> e.op, arg |-> e.arg, ok |-> e.ok, value |-> e.value,
     exp |-> IF e.op \in LookupOps /\ generateKey(sqlOf(colOf(e.op), e.arg)) \in DOMAIN c
             THEN c[generateKey(sqlOf(colOf(e.op), e.arg))].expiresAt
             ELSE -1]

NoCall == [op |-> "", arg |-> "", ok |-> FALSE, value |-> Null, exp |-> -1]

\* the person of the end-to-end scenario
Ana == [nome |-> "Ana", email |-> "ana@x.com", telefone |-> NoPhone]

\* how far the returns so far follow the end-to-end scenario: create Ana (1),
\* findByEmail (2), findByEmail again before the entry expires (3), update
\* of her phone (4), findByEmail (5); every call without a storage failure
stage(h, e) ==
    IF ~e.ok THEN 0
    ELSE IF e.op = "create" THEN (IF e.arg = Ana THEN 1 ELSE 0)
    ELSE IF e.op = "findByEmail" /\ e.arg = Ana.email
         THEN (IF h.scen = 1 THEN 2
               ELSE IF h.scen = 2 /\ e.at < h.last.exp THEN 3
               ELSE IF h.scen = 4 THEN 5 ELSE 0)
    ELSE IF e.op = "update" /\ h.scen = 3 /\ e.arg = [id |-> h.rec[1].id, data |-> [telefone |-> "111"]]
         THEN 4
    ELSE 0

\* the history once the return e, which left the cache c, lies in the past:
\* the last return
observe(h, e, c) ==
    IF e.kind # "return" THEN h
    ELSE [h EXCEPT !.last = IF e.op \in LookupOps THEN kept(e, c) ELSE NoCall]

\* the same, with the lookups that have found nothing
observeMisses(h, e, c) ==
    IF e.kind # "return" THEN h
    ELSE [h EXCEPT !.last = kept(e, c),
                   !.missed = IF e.op \in LookupOps /\ e.ok /\ e.value = Null
                              THEN @ \cup {<<e.op, e.arg>>} ELSE @]

\* the same for the end-to-end scenario: the last return and the stage
observeScenario(h, e, c) ==
    IF e.kind # "return" THEN h
    ELSE [h EXCEPT !.last = kept(e, c),
                   !.scen = stage(h, e),
                   !.rec = IF stage(h, e) = 1 THEN e.value ELSE @]

NoHist == [last |-> NoCall, missed |-> {}, scen |-> 0, rec |-> Null, shadow |-> EmptyCache, shadowGot |-> Null,
           readAt |-> <<0, 0>>, origin |-> <<>>]

Init ==
    /\ hist = NoHist
    /\ now = 0
    /\ ticks = 0
    /\ cache = EmptyCache
    /\ cacheSeq = <<>>
    /\ setLog = <<>>
    /\ db = {}
    /\ nextId = 1
    /\ commitSeq = 0
    /\ retSeq = 0
    /\ req = [p \in Slots |-> Idle]
    /\ nCalls = 0
    /\ ev = NoEv
    /\ http = [p \in Slots |-> NoRequest]
    /\ voice = NoVoice
    /\ recorder = NoRecorder
    /\ page = NoPage

\* the calls the router makes, with arguments drawn from the given emails,
\* the phones, and the identifiers handed out so far plus one unused one
Calls(p, emails) ==
    \/ \E data \in CreateInputs(emails) : create_call(p, data)
    \/ \E id \in 1..nextId, patch \in Patches(emails) : update_call(p, id, patch)
    \/ \E id \in 1..nextId : delete_call(p, id)
    \/ \E email \in emails : findByEmail_call(p, email)
    \/ \E telefone \in Phones : findByTelefone_call(p, telefone)

Steps(p) ==
    \/ create_insert(p)
    \/ create_return(p)
    \/ update_update(p)
    \/ update_return(p)
    \/ delete_delete(p)
    \/ delete_return(p)
    \/ findByEmail_cache(p)
    \/ findByEmail_rpc(p)
    \/ findByEmail_rpc_missing(p)
    \/ findByEmail_after_rpc(p)
    \/ findByEmail_return(p)
    \/ findByTelefone_cache(p)
    \/ lookup_select(p)
    \/ findByTelefone_return(p)
    \/ storage_fails(p)

\* the request slots are interchangeable: a new call takes the lowest free one
freeSlot(p) == req[p].pc = "idle" /\ \A q \in Slots : q < p => req[q].pc # "idle"

\* requests arrive at any time and their continuations interleave
Next ==
    /\ \/ nCalls < MaxCalls /\ \E p \in Slots : freeSlot(p) /\ Calls(p, {"ana@x.com"})
       \/ \E p \in Slots : Steps(p)
    /\ UNCHANGED <<hist, http, voice, recorder, page>>

Spec == Init /\ [][Next]_vars

\* one request at a time: a call starts only when no other is in flight
NextSeq ==
    /\ \/ nCalls < MaxCalls /\ AllIdle /\ Calls(1, Emails)
       \/ Steps(1)
       \/ \E d \in TickSteps : Tick(d)
    /\ hist' = observe(hist, ev, cache)
    /\ UNCHANGED <<http, voice, recorder, page>>

SpecSeq == Init /\ [][NextSeq]_vars

\* the same, remembering which lookups have found nothing
NextSeqMisses ==
    /\ \/ nCalls < MaxCalls /\ AllIdle /\ Calls(1, Emails)
       \/ Steps(1)
       \/ \E d \in TickSteps : Tick(d)
    /\ hist' = observeMisses(hist, ev, cache)
    /\ UNCHANGED <<http, voice, recorder, page>>

SpecSeqMisses == Init /\ [][NextSeqMisses]_vars

\* the calls of the end-to-end scenario, in their order
ScenarioCall ==
    \/ nCalls = 0 /\ create_call(1, Ana)
    \/ nCalls \in {1, 2, 4} /\ findByEmail_call(1, Ana.email)
    \/ nCalls = 3 /\ \E id \in 1..nextId : update_call(1, id, [telefone |-> "111"])

ScenarioSteps ==
    \/ create_insert(1)
    \/ create_return(1)
    \/ update_update(1)
    \/ update_return(1)
    \/ findByEmail_cache(1)
    \/ findByEmail_rpc(1)
    \/ findByEmail_rpc_missing(1)
    \/ findByEmail_after_rpc(1)
    \/ lookup_select(1)
    \/ findByEmail_return(1)
    \/ storage_fails(1)

\* the end-to-end scenario: its five calls one after the other, while the
\* clock runs and storage may fail
NextScenario ==
    /\ \/ AllIdle /\ ScenarioCall
       \/ ScenarioSteps
       \/ \E d \in TickSteps : Tick(d)
    /\ hist' = observeScenario(hist, ev, cache)
    /\ UNCHANGED <<http, voice, recorder, page>>

SpecScenario == Init /\ [][NextScenario]_vars

\* bodies of POST: complete, or lacking nome or email
PostBodies == CreateInputs({"ana@x.com"}) \cup [nome : Names] \cup [email : {"ana@x.com"}]

\* search and value of the query string
Queries ==
    {<<NoParam, NoParam>>, <<"nome", "an">>, <<"email", "ana@x.com">>, <<"telefone", "111">>,
     <<"idade", "1">>, <<"email", NoParam>>}

\* the path of the function, with an identifier, and a longer one
Paths == {<<"pessoa-dao">>, <<"pessoa-dao", "search", "q">>} \cup {<<"pessoa-dao", id>> : id \in 1..nextId}

NoBody == <<>>

\* the requests a client may send
Requests ==
    {[method |-> "OPTIONS", pathParts |-> <<"pessoa-dao">>, search |-> NoParam, value |-> NoParam, body |-> NoBody]}
    \cup {[method |-> "GET", pathParts |-> path, search |-> q[1], value |-> q[2], body |-> NoBody] :
             path \in Paths, q \in Queries}
    \cup {[method |-> "POST", pathParts |-> <<"pessoa-dao">>, search |-> NoParam, value |-> NoParam, body |-> b] :
             b \in PostBodies}
    \cup {[method |-> "PUT", pathParts |-> path, search |-> NoParam, value |-> NoParam, body |-> b] :
             path \in Paths, b \in Patches({"ana@x.com"})}
    \cup {[method |-> "DELETE", pathParts |-> path, search |-> NoParam, value |-> NoParam, body |-> NoBody] :
             path \in Paths}

StepsRouter(p) ==
    \/ Steps(p)
    \/ lookup_digest_rejected(p)
    \/ getById_return(p)
    \/ findByName_ilike(p)
    \/ findByName_return(p)
    \/ listAll_select(p)
    \/ listAll_return(p)

\* the handler serving one request at a time, and create called on the DAO
NextRouter ==
    /\ \/ nCalls < MaxCalls /\ AllIdle /\ \E r \in Requests : serve(1, r)
       \/ nCalls < MaxCalls /\ AllIdle /\ \E data \in PostBodies : dao_create(1, data)
       \/ StepsRouter(1) /\ UNCHANGED http
    /\ UNCHANGED <<hist, voice, recorder, page>>

SpecRouter == Init /\ [][NextRouter]_vars

\* the CacheManager alone, its methods called in any order at any time
NextCache ==
    /\ \/ \E key \in CacheKeys : cache_get(key)
       \/ \E key \in CacheKeys, data \in Payloads, ttlSeconds \in TtlArgs : cache_set(key, data, ttlSeconds)
       \/ \E key \in CacheKeys : cache_evict(key)
       \/ cache_invalidateAll
       \/ cache_cleanup
       \/ cache_getStats
       \/ \E d \in TickSteps : Tick(d)
    /\ UNCHANGED <<hist, http, voice, recorder, page>>

SpecCache == Init /\ [][NextCache]_vars

\* a second CacheManager that receives the same calls at the same times,
\* cleanup excepted: its map after the call, and what its get returned
shadowed(c, got) == hist' = [hist EXCEPT !.shadow = c, !.shadowGot = got]

\* the CacheManager swept at arbitrary points, next to one that never is
NextSweep ==
    /\ \/ \E key \in CacheKeys :
             /\ cache_get(key)
             /\ shadowed(get(hist.shadow, key, now).cache, get(hist.shadow, key, now).value)
       \/ \E key \in CacheKeys, data \in Payloads, ttlSeconds \in TtlArgs :
             /\ cache_set(key, data, ttlSeconds)
             /\ shadowed(set(hist.shadow, key, data, ttlSeconds, now), Null)
       \/ \E key \in CacheKeys :
             /\ cache_evict(key)
             /\ shadowed(evict(hist.shadow, key).cache, Null)
       \/ cache_invalidateAll /\ shadowed(invalidateAll(hist.shadow), Null)
       \/ cache_cleanup /\ UNCHANGED hist
       \/ \E d \in TickSteps : Tick(d) /\ UNCHANGED hist
    /\ UNCHANGED <<http, voice, recorder, page>>

SpecSweep == Init /\ [][NextSweep]_vars

\* the calls whose entries age in the cache: first the create of one
\* person with a phone, then the two lookups
StaleCalls(p) ==
    \/ nCalls = 0 /\ create_call(p, [Ana EXCEPT !.telefone = "111"])
    \/ findByEmail_call(p, "ana@x.com")
    \/ \E telefone \in Phones : findByTelefone_call(p, telefone)

StaleSteps(p) ==
    \/ create_insert(p)
    \/ create_return(p)
    \/ findByEmail_cache(p)
    \/ findByEmail_rpc(p)
    \/ findByEmail_rpc_missing(p)
    \/ findByEmail_after_rpc(p)
    \/ findByEmail_return(p)
    \/ findByTelefone_cache(p)
    \/ lookup_select(p)
    \/ findByTelefone_return(p)

\* storage answered the request in slot p in this step
answered(p) == req[p].pc # "idle" /\ req'[p].pc # "idle" /\ req'[p].acc > req[p].acc

\* where each entry comes from: when storage answered the read that found
\* it, and when set stored it
observeOrigin(h) ==
    [h EXCEPT !.readAt = [p \in Slots |-> IF answered(p) THEN now ELSE h.readAt[p]],
              !.origin = [k \in DOMAIN cache' |->
                            IF k \in DOMAIN cache /\ cache'[k] = cache[k] THEN h.origin[k]
                            ELSE [read |-> h.readAt[ev'.slot], set |-> now]]]

\* a create and then lookups interleaved while the clock runs and storage
\* answers every statement, with the origin of every entry
NextStale ==
    /\ \/ nCalls < MaxCalls /\ \E p \in Slots : freeSlot(p) /\ StaleCalls(p)
       \/ \E p \in Slots : StaleSteps(p)
       \/ \E d \in TickSteps : Tick(d)
    /\ hist' = observeOrigin(hist)
    /\ UNCHANGED <<http, voice, recorder, page>>

SpecStale == Init /\ [][NextStale]_vars

\* the voice-chat handler serving one request after the other
NextVoice ==
    /\ \/ \E r \in VoiceRequests : voice_serve(r)
       \/ voice_formData
       \/ \E o \in TranscriptionOutcomes : voice_transcribeAudio(o)
       \/ \E o \in ChatOutcomes : voice_generateResponse(o)
    /\ UNCHANGED <<dao, recorder, page>>

SpecVoice == Init /\ [][NextVoice]_vars

\* the page in the browser: clicks, browser events and renders in any order
NextRecorder ==
    \/ \E v \in {1, 2} : mount(v)
    \/ render
    \/ click_main
    \/ click_reset
    \/ \E o \in {"denied", "unsupported", "ok"} : startRecording_continues(o)
    \/ \E e \in 1..maxDuration : interval_tick(e)
    \/ \E size \in {0, 1} : recorder_onstop(size)
    \/ \E size \in {0, 1} : recorder_onerror(size)
    \/ \E res \in VoiceChatResults : processVoiceChat_settles(res)
    \/ delay_elapses

SpecRecorder == Init /\ [][NextRecorder]_vars

\* the same where React renders after a state change, the browser fires
\* the stop event, the promise of processVoiceChat settles and the timer
\* of the delay fires
SpecRecorderFair ==
    /\ SpecRecorder
    /\ WF_vars(render)
    /\ WF_vars(\E size \in {0, 1} : recorder_onstop(size))
    /\ WF_vars(\E res \in VoiceChatResults : processVoiceChat_settles(res))
    /\ WF_vars(delay_elapses)

(* ------------------------------ properties ---------------------------- *)

isReturn(ops) == ev.kind = "return" /\ ev.op \in ops

keyOf(op, arg) == generateKey(sqlOf(colOf(op), arg))

\* C1: a findByEmail or findByTelefone call that starts after a write has
\* returned success never returns a record that was read from storage
\* before that write: the table version the returned data was read at is
\* at least the newest version whose write had returned when the call began.
NoStaleReadAfterWrite ==
    (isReturn(LookupOps) /\ ev.ok) => ev.seq >= ev.startSeq

\* C2: right after a create, update or delete has returned success,
\* getStats() reports size 0, whatever the cache held and whichever record
\* the write was about.
WriteInvalidatesAll ==
    (isReturn(WriteOps) /\ ev.ok) => getStats(cache).size = 0

WriteInvalidatesAll_witness ==
    isReturn(WriteOps) /\ ev.ok /\ ev.sizeBefore > 0 /\ getStats(cache).size = 0

\* C3: with one call at a time, every lookup that returns returns what the
\* exact-match statement on the table gives at that moment, whether it was
\* served from the cache or not.
CacheIsTransparent ==
    (isReturn(LookupOps) /\ ev.ok) =>
        ev.value = selectSingle(db, colOf(ev.op), ev.arg).data

CacheIsTransparent_witness ==
    isReturn(LookupOps) /\ ev.hit /\ retSeq >= 2
    /\ ev.value = selectSingle(db, colOf(ev.op), ev.arg).data

NoNegativeCaching ==
    /\ (isReturn(LookupOps) /\ ev.ok /\ ev.value = Null) =>
           (~ev.changed /\ keyOf(ev.op, ev.arg) \notin DOMAIN cache)
    /\ (/\ isReturn(LookupOps) /\ ev.ok
        /\ <<ev.op, ev.arg>> \in hist.missed
        /\ hist.last.op = "create" /\ hist.last.ok
        /\ hist.last.value[1][colOf(ev.op)] = ev.arg) =>
           ev.value = hist.last.value

\* C6: while the entry a set wrote at t0 with ttl T is neither overwritten,
\* evicted nor invalidated, a get before t0 + T returns its value and a get
\* after t0 + T returns null.
TTLExpiry ==
    (ev.kind = "cache" /\ ev.op = "get" /\ ev.key \in DOMAIN setLog) =>
        LET s == setLog[ev.key]
        IN  /\ ev.at < s.t0 + s.T * 1000 => ev.result = Some(s.data)
            /\ ev.at > s.t0 + s.T * 1000 => ev.result = Null

TTLExpiry_witness ==
    /\ ev.kind = "cache" /\ ev.op = "get" /\ ev.key \in DOMAIN setLog
    /\ setLog[ev.key].T = defaultTTLSeconds
    /\ ev.at > setLog[ev.key].t0 + setLog[ev.key].T * 1000
    /\ ev.before # Null /\ ev.result = Null

\* C7: get returns the stored value exactly when an entry for the key
\* exists and the time is strictly before its expiry; at the expiry
\* timestamp itself it returns null.
ValidIffStrictlyBeforeExpiry ==
    (ev.kind = "cache" /\ ev.op = "get") =>
        IF ev.before # Null /\ ev.at < ev.before[1].expiresAt
        THEN ev.result = Some(ev.before[1].data)
        ELSE ev.result = Null

\* C8: the end-to-end scenario.  After create Ana, the first findByEmail
\* misses, reads storage, returns the created record and leaves one entry;
\* the second, before the entry expires, returns the same record from the
\* cache, still one entry; the update of her phone leaves size 0; the next
\* findByEmail returns the record with the new phone and one entry.
EndToEndScenario ==
    ev.kind = "return" =>
        LET st == stage(hist, ev)
            size == getStats(cache).size
        IN  /\ st = 2 => (~ev.hit /\ ev.acc >= 1 /\ ev.value = hist.rec /\ size = 1)
            /\ st = 3 => (ev.hit /\ ev.acc = 0 /\ ev.value = hist.rec /\ size = 1)
            /\ st = 4 => size = 0
            /\ st = 5 => (/\ ev.value = Some([hist.rec[1] EXCEPT !.telefone = "111"])
                          /\ size = 1
                          /\ cache[keyOf(ev.op, ev.arg)].data.telefone = "111")

EndToEndScenario_witness ==
    ev.kind = "return" /\ stage(hist, ev) = 5 /\ ~ev.hit

\* C9: a create, update or delete that returns success has executed its
\* storage statement, then called invalidateAll, and returned in that same
\* step: the cache is empty when the caller gets the result.
InvalidateBeforeReturn ==
    (isReturn(WriteOps) /\ ev.ok) =>
        /\ ev.calls = <<"invalidateAll">>
        /\ DOMAIN cache = {}
        /\ ev.acc = 1
        /\ ev.seq \in 1..commitSeq
        /\ req[ev.slot].pc = "idle"

InvalidateBeforeReturn_witness ==
    /\ isReturn({"delete"}) /\ ev.ok /\ ev.sizeBefore > 0 /\ DOMAIN cache = {}
    /\ \E q \in Slots : req[q].pc \in {"rpc_resp", "select_resp"}

\* an entry as set writes it: all of data, expiresAt and createdAt
wholeEntry(e) ==
    /\ DOMAIN e = {"data", "expiresAt", "createdAt"}
    /\ DOMAIN e.data = {"id", "nome", "email", "telefone"}
    /\ e.expiresAt = e.createdAt + defaultTTL

\* C10: get, set and invalidateAll act on the cache as a whole: every step
\* leaves the cache as it was, or empty, or with one whole entry written,
\* or without one entry that had expired; no state shows a partly cleared
\* cache or a partly written entry.
CacheOpsAtomic ==
    [][\/ cache' = cache
       \/ DOMAIN cache' = {}
       \/ \E k \in DOMAIN cache' :
             /\ wholeEntry(cache'[k])
             /\ DOMAIN cache' = DOMAIN cache \cup {k}
             /\ \A j \in DOMAIN cache \ {k} : cache'[j] = cache[j]
       \/ \E k \in DOMAIN cache :
             /\ now > cache[k].expiresAt
             /\ DOMAIN cache' = DOMAIN cache \ {k}
             /\ \A j \in DOMAIN cache' : cache'[j] = cache[j]]_vars

CacheOpsAtomic_witness ==
    /\ isReturn(WriteOps) /\ ev.ok /\ ev.sizeBefore >= 2 /\ DOMAIN cache = {}
    /\ \E q \in Slots : req[q].pc = "digest"

\* C14: the email of a stored record stays what it was at creation for as
\* long as the record (its identifier) is stored, and no two stored records
\* share an identifier or an email.
IdAndEmailImmutable ==
    [][/\ \A r \in db : \A r2 \in db' : r.id = r2.id => r.email = r2.email
       /\ \A r \in db' : \A r2 \in db' : (r.id = r2.id \/ r.email = r2.email) => r = r2]_vars

\* C15: a call whose storage statement answered with an error sends no
\* further statement: it is on its way to throw, not at another query.
NoQueryAfterFailure ==
    \A p \in Slots :
        (req[p].pc # "idle" /\ req[p].acc >= 1 /\ req[p].resp.error # NoError) =>
            req[p].pc \notin {"insert", "update", "delete", "rpc", "select", "ilike", "list"}

\* C17: the text findByEmail and findByTelefone send to storage does not
\* depend on the caller's input: it is the text any other email or phone
\* would give.
FixedQueryText ==
    \A p \in Slots :
        (req[p].pc \in {"rpc", "select"} /\ req[p].op \in LookupOps) =>
            \A v \in Emails \cup Phones :
                sentText(req[p]) = sentText([req[p] EXCEPT !.arg = v, !.sql = sqlOf(req[p].col, v)])

\* C20: invalidateAll leaves the cache empty, whatever the expiry of its
\* entries, and returns the number of entries it removed.
InvalidateAllReturnsCount ==
    (ev.kind = "cache" /\ ev.op = "invalidateAll") =>
        (DOMAIN cache = {} /\ ev.result = Some(ev.sizeBefore))

\* a create input with both required fields
complete(data) == "nome" \in DOMAIN data /\ "email" \in DOMAIN data

\* the response the handler would give had the same call failed for lack of
\* a connection
genericFailure ==
    respond(http[ev.slot], [ev EXCEPT !.ok = FALSE, !.error = Some(thrown(ev.op, StorageDown))], cache)

\* C11: a create whose email is already stored leaves the table as it was,
\* and its outcome differs in kind (the status of the response) from that
\* of a create that failed for a generic storage error.
ConflictIsDistinct ==
    /\ [][\A p \in Slots :
            (req[p].pc = "insert" /\ req'[p].pc = "insert_resp"
             /\ req'[p].resp.error = UniqueViolation) => db' = db]_vars
    /\ []((/\ isReturn({"create"}) /\ http[ev.slot] # NoRequest
           /\ ev.error = Some(thrown("create", UniqueViolation))) =>
              response.status # genericFailure.status)

\* C12: an update of an identifier that no record has leaves the table as
\* it was, and its outcome differs in kind (the status of the response)
\* from that of an update that failed for a generic storage error.
MissingUpdateIsDistinct ==
    /\ [][\A p \in Slots :
            (req[p].pc = "update" /\ req'[p].pc = "update_resp"
             /\ req'[p].resp.error = PGRST116) => db' = db]_vars
    /\ []((/\ isReturn({"update"}) /\ http[ev.slot] # NoRequest
           /\ ev.error = Some(thrown("update", PGRST116))) =>
              response.status # genericFailure.status)

\* C13: a create whose input lacks nome or email never gets as far as a
\* storage statement, through the POST route (which answers 400) or on the
\* DAO itself.
ValidationBeforeStorage ==
    /\ \A p \in Slots :
          (req[p].pc \in {"insert", "insert_resp"}) => complete(req[p].arg)
    /\ (ev.kind = "response" /\ http[ev.slot].method = "POST" /\ ~complete(http[ev.slot].body)) =>
          (response.status = 400 /\ AllIdle)

\* C16: a findByEmail or findByTelefone call does not fail on the digest:
\* when it returns it has either hit the cache or queried storage, and its
\* only failures are those of storage.
DigestFailureIsMiss ==
    isReturn(LookupOps) =>
        /\ ev.hit \/ ev.acc >= 1
        /\ ev.error # Some(digestRejected)

\* the DAO read a search type names
readOf(search) ==
    CASE search = "nome" -> "findByName"
      [] search = "email" -> "findByEmail"
      [] OTHER -> "findByTelefone"

\* C18: every GET request with search in {nome, email, telefone} and a
\* non-empty value is answered from the DAO read of that name, not from
\* listAll or getById.
SearchReachesItsRead ==
    (/\ ev.kind \in {"return", "response"}
     /\ http[ev.slot].method = "GET"
     /\ http[ev.slot].search \in {"nome", "email", "telefone"}
     /\ http[ev.slot].value # NoParam) =>
        (ev.kind = "return" /\ ev.op = readOf(http[ev.slot].search))

\* C19: when getById, findByEmail or findByTelefone returns null, the
\* response of the handler is not an error response: its status is 200 and
\* its body has no error.
NotFoundIsNotAnError ==
    (/\ isReturn({"getById", "findByEmail", "findByTelefone"})
     /\ http[ev.slot] # NoRequest
     /\ ev.ok /\ ev.value = Null) =>
        (response.status = 200 /\ "error" \notin DOMAIN response.body)


\* a method of the CacheManager was called in this step
cacheCall(op) == ev'.kind = "cache" /\ ev'.op = op

\* C21: cleanup() at time now removes exactly the entries a get at that
\* time would report absent, returns their number, and leaves every other
\* entry as it was.
CleanupRemovesExpired ==
    [][cacheCall("cleanup") =>
        LET live == {k \in DOMAIN cache : get(cache, k, now).value # Null}
        IN  /\ DOMAIN cache' = live
            /\ \A k \in live : cache'[k] = cache[k]
            /\ ev'.result = Some(Cardinality(DOMAIN cache \ live))]_vars

CleanupRemovesExpired_witness ==
    /\ ev.kind = "cache" /\ ev.op = "cleanup"
    /\ ev.result = Some(1) /\ ev.sizeBefore = 2
    /\ \E k \in DOMAIN cache : cache[k].expiresAt = now

\* C23: evict(key) returns true exactly when the map held an entry for
\* key, expired or not; it removes that entry and no other, and changes
\* nothing when there was none.
EvictRemovesOne ==
    [][\A key \in CacheKeys :
        (cacheCall("evict") /\ ev'.key = key) =>
            /\ ev'.result = Some(key \in DOMAIN cache)
            /\ DOMAIN cache' = DOMAIN cache \ {key}
            /\ \A k \in DOMAIN cache' : cache'[k] = cache[k]
            /\ key \notin DOMAIN cache => cache' = cache]_vars

EvictRemovesOne_witness ==
    /\ ev.kind = "cache" /\ ev.op = "evict"
    /\ ev.result = Some(TRUE)
    /\ ev.before # Null /\ ev.at > ev.before[1].expiresAt
    /\ DOMAIN cache # {}

\* C24: set(key, value, ttl) leaves under key an entry with the new value,
\* creation time now and expiry now + ttl (60 s when ttl is omitted, now
\* itself when ttl is 0), whatever entry was there before, and leaves the
\* entries of all other keys as they were.
SetReplaces ==
    [][\A key \in CacheKeys :
        (cacheCall("set") /\ ev'.key = key) =>
            /\ DOMAIN cache' = DOMAIN cache \cup {key}
            /\ cache'[key] = [data |-> setLog'[key].data, createdAt |-> now,
                              expiresAt |-> now + setLog'[key].T * 1000]
            /\ \A k \in DOMAIN cache \ {key} : cache'[k] = cache[k]]_vars

SetReplaces_witness ==
    /\ ev.kind = "cache" /\ ev.op = "set"
    /\ ev.before # Null
    /\ cache[ev.key].expiresAt = cache[ev.key].createdAt
    /\ ev.before[1].expiresAt > cache[ev.key].expiresAt
    /\ ev.before[1].data # cache[ev.key].data

\* C25: get(key) changes the map only when it finds an entry for key and
\* reports it absent: then it deletes that entry and nothing else; a get of
\* an absent key, and a get that returns the value, leave the map as it
\* was; get always returns.
GetDeletesOnlyExpired ==
    [][\A key \in CacheKeys :
        (cacheCall("get") /\ ev'.key = key) =>
            IF key \in DOMAIN cache /\ ev'.result = Null
            THEN /\ now >= cache[key].expiresAt
                 /\ DOMAIN cache' = DOMAIN cache \ {key}
                 /\ Cardinality(DOMAIN cache') = Cardinality(DOMAIN cache) - 1
                 /\ \A k \in DOMAIN cache' : cache'[k] = cache[k]
            ELSE /\ cache' = cache
                 /\ key \in DOMAIN cache => ev'.result = Some(cache[key].data)]_vars

GetDeletesOnlyExpired_witness ==
    /\ ev.kind = "cache" /\ ev.op = "get"
    /\ ev.before # Null /\ ev.result = Null
    /\ ev.key \notin DOMAIN cache
    /\ Cardinality(DOMAIN cache) = ev.sizeBefore - 1
    /\ DOMAIN cache # {}

\* C30: getStats leaves the map as it was and reports its size and one key
\* prefix per entry.
GetStatsIsReadOnly ==
    [][cacheCall("getStats") =>
        /\ cache' = cache
        /\ ev'.result[1].size = Cardinality(DOMAIN cache)
        /\ DOMAIN ev'.result[1].keys = DOMAIN cache
        /\ \A k \in DOMAIN cache : ev'.result[1].keys[k] = keyPrefix(k)]_vars

GetStatsIsReadOnly_witness ==
    /\ ev.kind = "cache" /\ ev.op = "getStats"
    /\ ev.result[1].size = 2
    /\ \E k \in DOMAIN cache : now > cache[k].expiresAt


\* C22: a sequence of set, get, evict and invalidateAll calls returns from
\* every get the value it returns when cleanup() calls are inserted at
\* arbitrary points, and any get made next would return the same too; the
\* two maps may differ in size.
SweepChangesNoRead ==
    /\ (ev.kind = "cache" /\ ev.op = "get") => ev.result = hist.shadowGot
    /\ \A key \in CacheKeys : get(cache, key, now).value = get(hist.shadow, key, now).value

SweepChangesNoRead_witness ==
    /\ ev.kind = "cache" /\ ev.op = "get" /\ ev.result # Null
    /\ Cardinality(DOMAIN cache) < Cardinality(DOMAIN hist.shadow)


\* the columns the cached lookups search, and values searched for, among
\* them values that contain quotes and the other column's name
KeyColumns == {"email", "telefone"}

KeyValues == Emails \cup Phones \cup {"", "111' OR email = 'ana@x.com", "ana@x.com' OR telefone = '111"}

\* lookups have the same key only if they have the same column and value
KeysInjective ==
    \A c1, c2 \in KeyColumns, v1, v2 \in KeyValues :
        generateKey(sqlOf(c1, v1)) = generateKey(sqlOf(c2, v2)) <=> (c1 = c2 /\ v1 = v2)

Uncached == {"getById", "findByName", "listAll"}

\* C27: no step of getById, findByName or listAll changes the cache, and
\* each of these calls returns after one storage statement, without a
\* cache call, whatever the cache holds.
UncachedReadsBypassCache ==
    [][\A p \in Slots :
        ((req[p].pc # "idle" /\ req[p].op \in Uncached) \/ (req'[p].pc # "idle" /\ req'[p].op \in Uncached))
        => /\ cache' = cache
           /\ ev'.kind = "return" => (~ev'.hit /\ ev'.calls = <<>> /\ ev'.acc = 1)]_vars

UncachedReadsBypassCache_witness ==
    /\ isReturn({"getById"}) /\ ev.ok /\ ev.value # Null
    /\ ev.sizeBefore > 0
    /\ Cardinality(DOMAIN cache) = ev.sizeBefore

\* C28: findByEmail and findByTelefone take the same steps: a hit returns
\* without a storage statement, a miss returns after exactly one.
LookupsShareProtocol ==
    isReturn(LookupOps) => ev.acc = IF ev.hit THEN 0 ELSE 1

\* C29: a delete of an id that matches no row leaves the table as it is and
\* has the outcome an update of that id has.
DeleteMissingLikeUpdate ==
    [][\A p \in Slots :
        (/\ req[p].pc = "delete" /\ req'[p].pc = "delete_resp"
         /\ req'[p].resp.error # StorageDown
         /\ ~\E r \in db : r.id = req[p].arg.id)
        => /\ db' = db
           /\ \A patch \in Patches(Emails) :
                 req'[p].resp.error = updateSingle(db, req[p].arg.id, patch).error]_vars


\* the request in slot p is a create, update or delete
isWrite(r) == r.pc # "idle" /\ r.op \in WriteOps

\* C31: a create, update or delete whose storage statement failed throws
\* without a cache call, and no step of a write changes the cache except
\* its successful return: the failed write leaves the entries as they were.
FailedWriteKeepsCache ==
    [][\A p \in Slots :
        (req'[p] # req[p] /\ (isWrite(req[p]) \/ isWrite(req'[p])))
        => /\ cache' # cache => (ev'.kind = "return" /\ ev'.slot = p /\ ev'.ok)
           /\ (ev'.kind = "return" /\ ~ev'.ok) =>
                 (cache' = cache /\ ev'.calls = <<>> /\ req[p].resp.error # NoError)]_vars

FailedWriteKeepsCache_witness ==
    /\ isReturn({"update"}) /\ ~ev.ok
    /\ ev.error[1].message[2] = messageOf(PGRST116)
    /\ ev.sizeBefore > 0
    /\ Cardinality(DOMAIN cache) = ev.sizeBefore


\* C32 as stated: a record returned from the cache was read from storage
\* at most the default TTL before the hit.
BoundedStaleness ==
    (isReturn(LookupOps) /\ ev.hit) => ev.at - hist.origin[keyOf(ev.op, ev.arg)].read <= defaultTTL

\* C32, amended: only set gives an entry its timestamps (creation at the
\* set, expiry the default TTL later; a hit changes neither), the set comes
\* after the storage read that found the record, and a record returned from
\* the cache was stored by a set at most the default TTL before the hit.
BoundedStalenessFromSet ==
    /\ \A k \in DOMAIN cache :
          /\ cache[k].createdAt = hist.origin[k].set
          /\ cache[k].expiresAt = hist.origin[k].set + defaultTTL
          /\ hist.origin[k].read <= hist.origin[k].set
    /\ (isReturn(LookupOps) /\ ev.hit) =>
          /\ keyOf(ev.op, ev.arg) \in DOMAIN cache
          /\ ev.at - hist.origin[keyOf(ev.op, ev.arg)].set <= defaultTTL

BoundedStalenessFromSet_witness ==
    /\ isReturn(LookupOps) /\ ev.hit
    /\ ev.at - hist.origin[keyOf(ev.op, ev.arg)].read > defaultTTL
    /\ \E p \in Slots : req[p].pc # "idle"


\* the voice-chat handler has answered its request
answered_voice == voice.pc = "idle" /\ voice.request # NoVoiceRequest

\* the response has a body and the default status: a success body
isSuccess(r) == r.status = 200 /\ r.body # Null

\* C33: the chat provider is called only as the second call of a request,
\* after the transcription provider returned a text that is not blank, with
\* that text, and never when transcriptOnly is 'true'; a transcriptOnly
\* response holds the transcript alone, and every success response holds a
\* transcript that is not blank.
ChatAfterTranscript ==
    /\ \A i \in DOMAIN voice.calls :
          voice.calls[i].provider = "chat" =>
             /\ i = 2 /\ voice.calls[1].provider = "transcription"
             /\ Len(voice.got) >= 1 /\ ~voice.got[1].threw /\ voice.got[1].text # Null
             /\ trim(voice.got[1].text[1]) # <<>>
             /\ voice.calls[i].input = voice.got[1].text[1]
             /\ voice.request.form.transcriptOnly # StringField("true")
    /\ isSuccess(voice.response) =>
          /\ "transcript" \in DOMAIN voice.response.body
          /\ trim(voice.response.body.transcript) # <<>>
          /\ voice.response.body.transcript = voice.got[1].text[1]
          /\ voice.request.form.transcriptOnly = StringField("true") =>
                (DOMAIN voice.response.body = {"transcript"} /\ Len(voice.calls) = 1)

ChatAfterTranscript_witness ==
    /\ answered_voice /\ isSuccess(voice.response)
    /\ Len(voice.calls) = 2
    /\ Head(voice.response.body.transcript) = " "
    /\ voice.request.form.transcriptOnly = StringField("false")
    /\ voice.request.form.file.type = "audio/mp4"


\* a step of the request failed: the body is no form, the file is empty, a
\* provider threw, the transcription is blank or the chat output is empty
failedStep ==
    \/ ~voice.request.form.parsed
    \/ voice.request.form.file.kind = "File" /\ voice.request.form.file.size = 0
    \/ \E i \in DOMAIN voice.got : voice.got[i].threw
    \/ Len(voice.got) >= 1 /\ ~voice.got[1].threw /\
          (voice.got[1].text = Null \/ \A j \in DOMAIN voice.got[1].text[1] : voice.got[1].text[1][j] = " ")
    \/ Len(voice.got) = 2 /\ ~voice.got[2].threw /\
          (voice.got[2].output = Null \/ Len(voice.got[2].output[1]) = 0)

\* the body is { error: message } and nothing else
errorBody(r) == r.body # Null /\ DOMAIN r.body = {"error"} /\ r.body.error # ""

\* C34: OPTIONS is answered without body and without a provider call, any
\* other method but POST with 405, a POST whose 'file' is no File with 400
\* and without a provider call, and a POST with a failed step with 500 and
\* the message of the error; so a success body answers only a POST with a
\* File none of whose steps failed.
NoSuccessOnFailure ==
    answered_voice =>
       LET r == voice.request
           resp == voice.response
       IN  /\ r.method = "OPTIONS" => (resp = Response(200, Null) /\ voice.calls = <<>>)
           /\ r.method \notin {"OPTIONS", "POST"} =>
                 (resp.status = 405 /\ errorBody(resp) /\ voice.calls = <<>>)
           /\ (r.method = "POST" /\ r.form.parsed /\ r.form.file.kind # "File") =>
                 (resp.status = 400 /\ errorBody(resp) /\ voice.calls = <<>>)
           /\ (r.method = "POST" /\ failedStep) =>
                 /\ resp.status = 500 /\ errorBody(resp)
                 /\ \A i \in DOMAIN voice.got :
                       (voice.got[i].threw /\ voice.got[i].isError) => resp.body.error = voice.got[i].message
           /\ isSuccess(resp) => (r.method = "POST" /\ r.form.file.kind = "File" /\ ~failedStep)

NoSuccessOnFailure_witness ==
    /\ answered_voice
    /\ Len(voice.got) = 2 /\ voice.got[2].output = Some(<<>>)
    /\ voice.response = Response(500, [error |-> "Resposta do chat vazia"])


\* C35: onRecordingComplete is called at most once between two visits of
\* the state 'idle', whatever renders happen in between.
SentOncePerIdle ==
    \A i, j \in DOMAIN page.sent : page.sent[i].epoch = page.sent[j].epoch => i = j

SentOncePerIdle_witness ==
    /\ Len(page.sent) = 2
    /\ page.sent[1].blob # page.sent[2].blob
    /\ page.hasSent /\ recorder.state = "processing"


\* recording n ended with a non-empty blob that the hook still holds
ended(n) == recorder.mr = "inactive" /\ recorder.audioBlob = Some([n |-> n, size |-> 1])

\* onRecordingComplete was called with the blob of recording n
delivered(n) == \E i \in DOMAIN page.sent : page.sent[i].blob.n = n

\* C36: every recording that ends with a non-empty blob is eventually
\* handed to onRecordingComplete, unless the user discards or replaces the
\* blob first, whichever state onstop leaves the hook in.
EveryRecordingIsDelivered ==
    \A n \in 1..MaxRecordings : ended(n) ~> (delivered(n) \/ ~ended(n))


\* C37: the tick that sees elapsed >= maxDuration in state 'recording'
\* stops the recorder and clears the interval so that no tick follows,
\* and the recorder then leaves 'recording'.
AutoStopEndsRecording ==
    /\ [][(recorder.state = "recording" /\ recorder'.elapsed >= maxDuration
            /\ (\E e \in 1..maxDuration : interval_tick(e)))
           => (recorder'.mr # "recording" /\ ~recorder'.intervalRef /\ recorder'.intervals = 0)]_vars
    /\ (recorder.state = "recording" /\ recorder.elapsed >= maxDuration) ~> (recorder.state # "recording")


\* C38: in the states 'idle', 'error' and 'processing' no stream is held
\* and no interval or volume animation is active, and there is never more
\* than one stream or one interval.
IdleHoldsNothing ==
    /\ recorder.state \in {"idle", "error", "processing"}
          => recorder.streams = 0 /\ recorder.intervals = 0 /\ recorder.anims = 0
    /\ recorder.streams <= 1 /\ recorder.intervals <= 1


\* every flag of the page is cleared
flagsCleared == ~page.isProcessing /\ ~page.isTranscribing /\ ~page.isGenerating

\* C39: every invocation of handleRecordingComplete with a non-empty blob
\* ends, with isProcessing, isTranscribing and isGenerating all false,
\* whether processVoiceChat resolves or throws; after a failure transcript
\* and response are null; the response is set only after the transcript;
\* no invocation starts while another one is running.
HandlerAlwaysSettles ==
    /\ (page.pc # "idle") ~> (page.pc = "idle" /\ flagsCleared)
    /\ [](page.pc = "idle" => flagsCleared)
    /\ [](page.outcome = "failed" => page.transcript = Null /\ page.response = Null)
    /\ [](page.response # Null => page.transcript # Null)
    /\ [][page'.response # Null /\ page.response = Null
             => page.transcript # Null /\ page'.transcript = page.transcript]_vars
    /\ [][Len(page'.sent) > Len(page.sent) => page.pc = "idle" /\ page'.pc = "backend"]_vars

HandlerAlwaysSettles_witness ==
    /\ Len(page.sent) = 2
    /\ page.pc = "idle" /\ page.outcome = "failed"
    /\ flagsCleared /\ page.transcript = Null

====
